---------------------------- MODULE Spec2Model ----------------------------
(***************************************************************************)
(* A model of main.py: the root-document selector (find_main_texfile), the *)
(* directive parser (parse_includes), the include-graph walker             *)
(* (resolve_includes) and the concatenation loop of main.                  *)
(*                                                                         *)
(* Text is modelled as Python models it: a str is a sequence of            *)
(* characters, here a sequence of one-character strings.                   *)
(***************************************************************************)
EXTENDS Naturals, Sequences, FiniteSets, TLC

VARIABLES
    disk,           \* the directory tree: file path |-> file content
    graph,          \* the references of the tree: file path |-> the files it includes
    pc,             \* position of the program
    visited,        \* resolve_includes: the visited set of the running top-level call
    stack,          \* resolve_includes: the nested calls, outermost first
    all_tex_files,  \* main: the list the last top-level resolve_includes returned
    cat_txt,        \* main: the text written to cat.txt
    run,            \* number of top-level resolve_includes calls started
    first,          \* what the first top-level call returned and emitted
    edited,         \* TRUE once a dangling directive was removed from the tree
    tex_content,    \* parse_includes: its argument
    include_files,  \* parse_includes: its return value
    walked,         \* find_main_texfile: what os.walk enumerates
    root_tex        \* find_main_texfile: its return value

vars == <<disk, graph, pc, visited, stack, all_tex_files, cat_txt, run, first, edited,
          tex_content, include_files, walked, root_tex>>

-----------------------------------------------------------------------------
(* Bounds of the model *)

\* fragments a text handed to parse_includes is built from
MaxFrags == 4

\* directive lines written in the files of a directory tree, all files together
MaxLines == 3

\* top-level resolve_includes calls made on one directory tree
NumCalls == 2

\* nested calls the interpreter allows before it raises RecursionError
MaxDepth == 6

\* directory entries os.walk enumerates
MaxWalked == 3

-----------------------------------------------------------------------------
(* Strings *)

None == "None"

BoundedSeq(S, n) == UNION {[1..k -> S] : k \in 0..n}

RECURSIVE Flatten(_)
\* the concatenation of a sequence of strings
Flatten(ss) == IF ss = <<>> THEN <<>> ELSE Head(ss) \o Flatten(Tail(ss))

\* s[a..b], empty when b < a
Slice(s, a, b) == IF b < a THEN <<>> ELSE SubSeq(s, a, b)

\* p occurs in s starting at index pos
HasPrefixAt(s, pos, p) ==
    /\ pos + Len(p) - 1 <= Len(s)
    /\ \A k \in 1..Len(p) : s[pos + k - 1] = p[k]

\* str.endswith
EndsWith(s, suffix) ==
    /\ Len(suffix) <= Len(s)
    /\ HasPrefixAt(s, Len(s) - Len(suffix) + 1, suffix)

RECURSIVE FirstIndex(_, _, _, _)
\* the least index >= pos whose character is in (or, with inSet FALSE, not in)
\* chars; Len(s) + 1 when there is none
FirstIndex(s, pos, chars, inSet) ==
    IF pos > Len(s) THEN Len(s) + 1
    ELSE IF (s[pos] \in chars) = inSet THEN pos
    ELSE FirstIndex(s, pos + 1, chars, inSet)

RECURSIVE LastIndex(_, _, _, _)
\* the greatest index <= pos whose character is in (or not in) chars; 0 when
\* there is none
LastIndex(s, pos, chars, inSet) ==
    IF pos < 1 THEN 0
    ELSE IF (s[pos] \in chars) = inSet THEN pos
    ELSE LastIndex(s, pos - 1, chars, inSet)

RECURSIVE SplitOn(_, _)
\* str.split(sep) for a one-character separator
SplitOn(s, sep) ==
    LET at == FirstIndex(s, 1, {sep}, TRUE)
    IN  IF at > Len(s) THEN <<s>>
        ELSE <<Slice(s, 1, at - 1)>> \o SplitOn(Slice(s, at + 1, Len(s)), sep)

\* the characters str.strip() removes and the regular expression class \s matches
Whitespace == {" ", "\t", "\n", "\r", "\f"}

\* the characters str.splitlines() breaks a line at ("\r\n" is one break)
LineBreaks == {"\n", "\r", "\f"}

UpperToLower ==
    [c \in {"A","B","C","D","E","F","G","H","I","J","K","L","M","N","O","P","Q",
            "R","S","T","U","V","W","X","Y","Z"} |->
        CASE c = "A" -> "a" [] c = "B" -> "b" [] c = "C" -> "c" [] c = "D" -> "d"
          [] c = "E" -> "e" [] c = "F" -> "f" [] c = "G" -> "g" [] c = "H" -> "h"
          [] c = "I" -> "i" [] c = "J" -> "j" [] c = "K" -> "k" [] c = "L" -> "l"
          [] c = "M" -> "m" [] c = "N" -> "n" [] c = "O" -> "o" [] c = "P" -> "p"
          [] c = "Q" -> "q" [] c = "R" -> "r" [] c = "S" -> "s" [] c = "T" -> "t"
          [] c = "U" -> "u" [] c = "V" -> "v" [] c = "W" -> "w" [] c = "X" -> "x"
          [] c = "Y" -> "y" [] c = "Z" -> "z"]

\* str.lower
Lower(s) == [k \in 1..Len(s) |->
                IF s[k] \in DOMAIN UpperToLower THEN UpperToLower[s[k]] ELSE s[k]]

\* str.strip
Strip(s) ==
    Slice(s, FirstIndex(s, 1, Whitespace, FALSE), LastIndex(s, Len(s), Whitespace, FALSE))

RECURSIVE SplitLines(_)
\* str.splitlines: no empty last line after a final line break
SplitLines(s) ==
    IF s = <<>> THEN <<>>
    ELSE LET p == FirstIndex(s, 1, LineBreaks, TRUE)
             skip == IF p < Len(s) /\ s[p] = "\r" /\ s[p + 1] = "\n" THEN 2 ELSE 1
         IN  IF p > Len(s) THEN <<s>>
             ELSE <<Slice(s, 1, p - 1)>> \o SplitLines(Slice(s, p + skip, Len(s)))

-----------------------------------------------------------------------------
(* parse_includes *)

KwInput   == <<"\\", "i", "n", "p", "u", "t">>
KwInclude == <<"\\", "i", "n", "c", "l", "u", "d", "e">>

\* \\(?:include|input) at pos: the length matched, 0 when it does not match
KeywordAt(s, pos) ==
    IF HasPrefixAt(s, pos, KwInclude) THEN Len(KwInclude)
    ELSE IF HasPrefixAt(s, pos, KwInput) THEN Len(KwInput)
    ELSE 0

\* pattern_brackets tried at pos: \\(?:include|input)\{([^}]*)\}
MatchBracketAt(s, pos) ==
    LET k == KeywordAt(s, pos)
        open == pos + k
        close == FirstIndex(s, open + 1, {"}"}, TRUE)
    IN  IF k > 0 /\ open <= Len(s) /\ s[open] = "{" /\ close <= Len(s)
        THEN [ok |-> TRUE, cap |-> Slice(s, open + 1, close - 1), end |-> close + 1]
        ELSE [ok |-> FALSE, cap |-> <<>>, end |-> pos]

\* pattern_space tried at pos: \\(?:include|input)\s+([^\s]+)
MatchSpaceAt(s, pos) ==
    LET k == KeywordAt(s, pos)
        tok == FirstIndex(s, pos + k, Whitespace, FALSE)
        stop == FirstIndex(s, tok, Whitespace, TRUE)
    IN  IF k > 0 /\ tok > pos + k /\ tok <= Len(s)
        THEN [ok |-> TRUE, cap |-> Slice(s, tok, stop - 1), end |-> stop]
        ELSE [ok |-> FALSE, cap |-> <<>>, end |-> pos]

RECURSIVE FindAllBracket(_, _)
\* re.findall(pattern_brackets, s) from pos on: leftmost matches, none overlapping
FindAllBracket(s, pos) ==
    IF pos > Len(s) THEN <<>>
    ELSE LET m == MatchBracketAt(s, pos)
         IN  IF m.ok THEN <<m.cap>> \o FindAllBracket(s, m.end)
             ELSE FindAllBracket(s, pos + 1)

RECURSIVE FindAllSpace(_, _)
\* re.findall(pattern_space, s) from pos on
FindAllSpace(s, pos) ==
    IF pos > Len(s) THEN <<>>
    ELSE LET m == MatchSpaceAt(s, pos)
         IN  IF m.ok THEN <<m.cap>> \o FindAllSpace(s, m.end)
             ELSE FindAllSpace(s, pos + 1)

\* the line with the '%' rule left out
StrippedLineKeepComment(line) == Strip(line)

\* the line as the patterns see it: stripped, then cut at the first '%'
StrippedLine(line) ==
    LET stripped == Strip(line)
        comment_index == FirstIndex(stripped, 1, {"%"}, TRUE)
    IN  IF comment_index <= Len(stripped)
        THEN Slice(stripped, 1, comment_index - 1)
        ELSE stripped

\* one pass of the loop body: what the line appends to include_files
LineIncludes(line) ==
    LET stripped_line == StrippedLine(line)
    IN  FindAllBracket(stripped_line, 1) \o FindAllSpace(stripped_line, 1)

RECURSIVE ParseLines(_)
ParseLines(lines) ==
    IF lines = <<>> THEN <<>>
    ELSE LineIncludes(Head(lines)) \o ParseLines(Tail(lines))

parse_includes(content) == ParseLines(SplitLines(content))

-----------------------------------------------------------------------------
(* os.path *)

Slash == "/"

LastSlash(p) == LastIndex(p, Len(p), {Slash}, TRUE)

\* os.path.join(a, b)
PathJoin(a, b) ==
    IF b # <<>> /\ b[1] = Slash THEN b
    ELSE IF a = <<>> \/ a[Len(a)] = Slash THEN a \o b
    ELSE a \o <<Slash>> \o b

\* os.path.basename
BaseName(p) == Slice(p, LastSlash(p) + 1, Len(p))

\* os.path.dirname: the head up to the last slash, its trailing slashes removed
\* unless it consists of slashes only
DirName(p) ==
    LET head == Slice(p, 1, LastSlash(p))
        last == LastIndex(head, Len(head), {Slash}, FALSE)
    IN  IF last = 0 THEN head ELSE Slice(head, 1, last)

\* path.split('/')
SplitPath(p) == SplitOn(p, Slash)

RECURSIVE NormComps(_, _)
\* the loop of os.path.normpath over the components of an absolute path
NormComps(comps, new_comps) ==
    IF comps = <<>> THEN new_comps
    ELSE LET comp == Head(comps)
         IN  IF comp \in {<<>>, <<".">>} THEN NormComps(Tail(comps), new_comps)
             ELSE IF comp # <<".", ".">>
                  THEN NormComps(Tail(comps), Append(new_comps, comp))
             ELSE IF new_comps # <<>>
                  THEN NormComps(Tail(comps), Slice(new_comps, 1, Len(new_comps) - 1))
             ELSE NormComps(Tail(comps), new_comps)

RECURSIVE JoinComps(_)
JoinComps(comps) ==
    IF comps = <<>> THEN <<>> ELSE <<Slash>> \o Head(comps) \o JoinComps(Tail(comps))

\* os.path.abspath of an absolute path (every path of the model is absolute:
\* the root comes from a join with the absolute temporary directory)
AbsPath(p) ==
    LET comps == NormComps(SplitPath(p), <<>>)
    IN  IF comps = <<>> THEN <<Slash>> ELSE JoinComps(comps)

\* os.path.isfile on a tree without symbolic links (no reference of the model
\* ends with a slash or names a path below a regular file)
IsFile(files, c) == c # <<>> /\ c[Len(c)] # Slash /\ AbsPath(c) \in DOMAIN files

-----------------------------------------------------------------------------
(* find_main_texfile *)

DotTex  == <<".", "t", "e", "x">>
MainTex == <<"m", "a", "i", "n", ".", "t", "e", "x">>
BeginDocument ==
    <<"\\", "b", "e", "g", "i", "n", "{", "d", "o", "c", "u", "m", "e", "n", "t", "}">>

\* needle in haystack
Contains(haystack, needle) ==
    \E pos \in 1..(Len(haystack) + 1) : HasPrefixAt(haystack, pos, needle)

\* the index of the first element of seq that is in accepted, 0 when none is
FirstWhere(seq, accepted) ==
    LET hits == {k \in 1..Len(seq) : seq[k] \in accepted}
    IN  IF hits = {} THEN 0 ELSE CHOOSE k \in hits : \A h \in hits : k <= h

\* the enumeration loop: the joined paths of the entries named *.tex
TexFiles(entries) ==
    LET IsTex(e) == EndsWith(Lower(e.fn), DotTex)
        FullPath(e) == PathJoin(e.dirpath, e.fn)
        kept == SelectSeq(entries, IsTex)
    IN  [k \in 1..Len(kept) |-> FullPath(kept[k])]

\* find_main_texfile with the content scan ahead of the name scan
find_main_texfile_content_first(entries, files) ==
    LET tex_files == TexFiles(entries)
        seen == {tex_files[k] : k \in 1..Len(tex_files)}
        NamedMain == {f \in seen : Lower(BaseName(f)) = MainTex}
        HasBegin == {f \in seen : Contains(files[f], BeginDocument)}
        by_name == FirstWhere(tex_files, NamedMain)
        by_content == FirstWhere(tex_files, HasBegin)
    IN  IF by_content > 0 THEN tex_files[by_content]
        ELSE IF by_name > 0 THEN tex_files[by_name]
        ELSE IF tex_files # <<>> THEN tex_files[1]
        ELSE None

find_main_texfile(entries, files) ==
    LET tex_files == TexFiles(entries)
        seen == {tex_files[k] : k \in 1..Len(tex_files)}
        NamedMain == {f \in seen : Lower(BaseName(f)) = MainTex}
        HasBegin == {f \in seen : Contains(files[f], BeginDocument)}
        by_name == FirstWhere(tex_files, NamedMain)
        by_content == FirstWhere(tex_files, HasBegin)
    IN  IF by_name > 0 THEN tex_files[by_name]
        ELSE IF by_content > 0 THEN tex_files[by_content]
        ELSE IF tex_files # <<>> THEN tex_files[1]
        ELSE None

-----------------------------------------------------------------------------
(* resolve_includes *)

\* the candidates with the verbatim path tried first
CandidatesVerbatimFirst(base_dir, inc) ==
    IF EndsWith(Lower(inc), DotTex)
    THEN <<PathJoin(base_dir, inc)>>
    ELSE <<PathJoin(base_dir, inc), PathJoin(base_dir, inc \o DotTex)>>

\* the candidates list built for one reference
Candidates(base_dir, inc) ==
    IF EndsWith(Lower(inc), DotTex)
    THEN <<PathJoin(base_dir, inc)>>
    ELSE <<PathJoin(base_dir, inc \o DotTex), PathJoin(base_dir, inc)>>

\* found_path: the first candidate that is a regular file, None when there is none
FoundPath(files, base_dir, inc) ==
    LET candidates == Candidates(base_dir, inc)
        Exists == {candidates[j] : j \in {j \in 1..Len(candidates) : IsFile(files, candidates[j])}}
        k == FirstWhere(candidates, Exists)
    IN  IF k = 0 THEN None ELSE candidates[k]

\* the files the references of f resolve to, in the order the parser returns them
\* and named as a call on them names them
ResolvedTargets(files, f) ==
    LET includes == parse_includes(files[f])
        found == [k \in 1..Len(includes) |-> FoundPath(files, DirName(f), includes[k])]
        Resolved(c) == c # None
        kept == SelectSeq(found, Resolved)
    IN  [k \in 1..Len(kept) |-> AbsPath(kept[k])]

\* the references of a whole tree
IncludeGraph(files) == [f \in DOMAIN files |-> ResolvedTargets(files, f)]

\* a call that has not yet run its first statement
NewCall(path) ==
    [arg |-> path, at |-> "entry", abspath |-> <<>>, includes |-> <<>>, i |-> 0,
     results |-> <<>>]

Top == stack[Len(stack)]

\* the innermost call has not yet run its first statement
AtEntry == pc = "running" /\ stack # <<>> /\ Top.at = "entry"

\* the innermost call is in its loop, about to handle the reference includes[i]
AtReference ==
    /\ pc = "running" /\ stack # <<>>
    /\ Top.at = "loop" /\ Top.i <= Len(Top.includes)

\* the innermost call has handled every reference
AtLoopEnd ==
    /\ pc = "running" /\ stack # <<>>
    /\ Top.at = "loop" /\ Top.i > Len(Top.includes)

\* the caller's frame with what the call returned put ahead of its own results
ResumePrepend(caller, returned) ==
    [caller EXCEPT !.results = returned \o @, !.i = @ + 1]

\* the caller's frame after the call it made returned `returned`
Resume(caller, returned) ==
    [caller EXCEPT !.results = @ \o returned, !.i = @ + 1]

\* what a return of `returned` by the innermost call leaves behind
ReturnFromTop(returned) ==
    IF Len(stack) = 1
    THEN /\ stack' = <<>>
         /\ all_tex_files' = returned
         /\ pc' = "returned"
    ELSE /\ stack' = Slice(stack, 1, Len(stack) - 2)
                        \o <<Resume(stack[Len(stack) - 1], returned)>>
         /\ UNCHANGED <<all_tex_files, pc>>

\* a top-level call that keeps the visited set of the call before it
TopCallKeepVisited ==
    /\ pc \in {"idle", "emitted"}
    /\ run < NumCalls
    /\ run' = run + 1
    /\ stack' = <<NewCall(root_tex)>>
    /\ pc' = "running"
    /\ UNCHANGED <<disk, graph, visited, all_tex_files, cat_txt, first, edited, tex_content,
                   include_files, walked, root_tex>>

\* main calls resolve_includes(root_tex): visited is None, so a new set is made
TopCall ==
    /\ pc \in {"idle", "emitted"}
    /\ run < NumCalls
    /\ run' = run + 1
    /\ visited' = {}
    /\ stack' = <<NewCall(root_tex)>>
    /\ pc' = "running"
    /\ UNCHANGED <<disk, graph, all_tex_files, cat_txt, first, edited, tex_content,
                   include_files, walked, root_tex>>

\* the entry of a call without the visited test
EnterUnguarded ==
    /\ AtEntry
    /\ LET abspath == AbsPath(Top.arg)
       IN  /\ visited' = visited \cup {abspath}
           /\ stack' = [stack EXCEPT ![Len(stack)] =
                  [arg |-> Top.arg, at |-> "loop", abspath |-> abspath,
                   includes |-> parse_includes(disk[abspath]), i |-> 1,
                   results |-> <<abspath>>]]
           /\ UNCHANGED <<all_tex_files, pc>>
    /\ UNCHANGED <<disk, graph, cat_txt, run, first, edited, tex_content, include_files,
                   walked, root_tex>>

\* lines 138-158: the visited test, then mark, append, read and parse
Enter ==
    /\ AtEntry
    /\ LET abspath == AbsPath(Top.arg)
       IN  IF abspath \in visited
           THEN /\ ReturnFromTop(<<>>)
                /\ UNCHANGED visited
           ELSE /\ visited' = visited \cup {abspath}
                /\ stack' = [stack EXCEPT ![Len(stack)] =
                       [arg |-> Top.arg, at |-> "loop", abspath |-> abspath,
                        includes |-> parse_includes(disk[abspath]), i |-> 1,
                        results |-> <<abspath>>]]
                /\ UNCHANGED <<all_tex_files, pc>>
    /\ UNCHANGED <<disk, graph, cat_txt, run, first, edited, tex_content, include_files,
                   walked, root_tex>>

\* one pass of the loop over includes that raises on a reference it cannot resolve
StepStrict ==
    /\ AtReference
    /\ LET found_path == FoundPath(disk, DirName(Top.abspath), Top.includes[Top.i])
       IN  IF found_path = None
           THEN pc' = "error" /\ UNCHANGED stack
           ELSE IF Len(stack) < MaxDepth
           THEN stack' = Append(stack, NewCall(found_path)) /\ UNCHANGED pc
           ELSE pc' = "error" /\ UNCHANGED stack
    /\ UNCHANGED <<disk, graph, visited, all_tex_files, cat_txt, run, first, edited,
                   tex_content, include_files, walked, root_tex>>

\* lines 161-180, one pass of the loop over includes: build the candidates, take
\* the first that is a file and call resolve_includes on it, or go on
Step ==
    /\ AtReference
    /\ LET found_path == FoundPath(disk, DirName(Top.abspath), Top.includes[Top.i])
       IN  IF found_path = None
           THEN stack' = [stack EXCEPT ![Len(stack)].i = @ + 1] /\ UNCHANGED pc
           ELSE IF Len(stack) < MaxDepth
           THEN stack' = Append(stack, NewCall(found_path)) /\ UNCHANGED pc
           ELSE pc' = "error" /\ UNCHANGED stack
    /\ UNCHANGED <<disk, graph, visited, all_tex_files, cat_txt, run, first, edited,
                   tex_content, include_files, walked, root_tex>>

\* line 182: the loop is over, the call returns its results to its caller
Return ==
    /\ AtLoopEnd
    /\ ReturnFromTop(Top.results)
    /\ UNCHANGED <<disk, graph, visited, cat_txt, run, first, edited, tex_content,
                   include_files, walked, root_tex>>

-----------------------------------------------------------------------------
(* main: the concatenation into cat.txt *)

BeginMark == <<"%", " ", ">", ">", ">", ">", ">", ">", ">", ">", " ",
               "B", "E", "G", "I", "N", " ">>
EndMark   == <<"%", " ", "<", "<", "<", "<", "<", "<", "<", "<", " ",
               "E", "N", "D", " ">>

\* the three writes of one pass of the loop, with the blank line left out
WritesNoBlankLine(files, texf) ==
    BeginMark \o texf \o <<"\n">> \o files[texf] \o <<"\n">> \o EndMark \o texf \o <<"\n">>

\* the three writes of one pass of the loop over all_tex_files
Writes(files, texf) ==
    BeginMark \o texf \o <<"\n">>
        \o files[texf]
        \o <<"\n">> \o EndMark \o texf \o <<"\n", "\n">>

\* lines 209-216
Emit ==
    /\ pc = "returned"
    /\ cat_txt' = Flatten([k \in 1..Len(all_tex_files) |-> Writes(disk, all_tex_files[k])])
    /\ first' = IF run = 1 THEN [files |-> all_tex_files, cat |-> cat_txt'] ELSE first
    /\ pc' = "emitted"
    /\ UNCHANGED <<disk, graph, visited, stack, all_tex_files, run, edited, tex_content,
                   include_files, walked, root_tex>>

-----------------------------------------------------------------------------
(* The directory trees resolve_includes is exercised on *)

Dir      == <<"/", "d">>
RootPath == Dir \o <<"/">> \o MainTex
PathA    == Dir \o <<"/", "a", ".", "t", "e", "x">>
PathB    == Dir \o <<"/", "b", ".", "t", "e", "x">>
PathBare == Dir \o <<"/", "a">>
PathTwice == Dir \o <<"/", "a", ".", "t", "e", "x", ".", "t", "e", "x">>
PathUpper == Dir \o <<"/", "a", ".", "T", "E", "X">>

\* \input{a} / \include b / \input{./main}%\input{b}
GraphLines ==
    { KwInput \o <<"{", "a", "}">>,
      KwInclude \o <<" ", "b">>,
      KwInput \o <<"{", ".", "/", "m", "a", "i", "n", "}", "%">>
          \o KwInput \o <<"{", "b", "}">> }

\* \input{a} / \input{a.tex} / \input{a.TEX}
ResolverLines ==
    { KwInput \o <<"{", "a", "}">>,
      KwInput \o <<"{", "a", ".", "t", "e", "x", "}">>,
      KwInput \o <<"{", "a", ".", "T", "E", "X", "}">> }

\* a file of the given lines, each ended by a newline
FileText(lines) == Flatten([k \in 1..Len(lines) |-> lines[k] \o <<"\n">>])

WalkerStart ==
    /\ graph = IncludeGraph(disk)
    /\ pc = "idle" /\ visited = {} /\ stack = <<>> /\ all_tex_files = None
    /\ cat_txt = None /\ run = 0 /\ first = None /\ edited = FALSE
    /\ tex_content = None /\ include_files = None /\ walked = <<>>
    /\ root_tex = RootPath

\* main.tex, a.tex and b.tex sharing up to MaxLines directive lines
InitGraph ==
    /\ \E ls \in BoundedSeq(GraphLines, MaxLines) :
       \E j \in 0..Len(ls) : \E i \in 0..j :
       \E present \in SUBSET {PathA, PathB} :
          disk = [p \in {RootPath} \cup present |->
                     FileText(IF p = RootPath THEN Slice(ls, 1, i)
                              ELSE IF p = PathA THEN Slice(ls, i + 1, j)
                              ELSE Slice(ls, j + 1, Len(ls)))]
    /\ WalkerStart

\* main.tex with up to MaxLines directive lines among empty files whose names
\* differ in their extension only
InitResolver ==
    /\ \E ls \in BoundedSeq(ResolverLines, MaxLines) :
       \E present \in SUBSET {PathA, PathBare, PathTwice, PathUpper} :
          disk = [p \in {RootPath} \cup present |->
                     IF p = RootPath THEN FileText(ls) ELSE <<>>]
    /\ WalkerStart

Init == InitGraph \/ InitResolver

\* between two top-level calls, a directive line none of whose references
\* resolves is deleted from one file
RemoveDangling ==
    /\ pc = "emitted" /\ ~edited /\ run < NumCalls
    /\ \E f \in DOMAIN disk :
       LET lines == SplitLines(disk[f]) IN
       \E k \in 1..Len(lines) :
          /\ LineIncludes(lines[k]) # <<>>
          /\ \A n \in 1..Len(LineIncludes(lines[k])) :
                FoundPath(disk, DirName(f), LineIncludes(lines[k])[n]) = None
          /\ disk' = [disk EXCEPT ![f] =
                FileText(Slice(lines, 1, k - 1) \o Slice(lines, k + 1, Len(lines)))]
    /\ graph' = IncludeGraph(disk')
    /\ edited' = TRUE
    /\ pc' = "idle"
    /\ UNCHANGED <<visited, stack, all_tex_files, cat_txt, run, first,
                   tex_content, include_files, walked, root_tex>>

Next == TopCall \/ Enter \/ Step \/ Return \/ Emit \/ RemoveDangling

Spec == Init /\ [][Next]_vars

-----------------------------------------------------------------------------
(* The enumerations find_main_texfile is exercised on *)

SubDir == Dir \o <<"/", "s">>

WalkNames == { MainTex,
               <<"M", "a", "i", "n", ".", "T", "E", "X">>,
               <<"a", ".", "t", "e", "x">>,
               <<"a", ".", "t", "x", "t">> }

\* a text with the document-start marker, and one that stops short of it
WithBegin    == <<"%">> \o BeginDocument \o <<"\n">>
WithoutBegin == Slice(BeginDocument, 1, Len(BeginDocument) - 1) \o <<"\n">>

WalkEntries == [dirpath : {Dir, SubDir}, fn : WalkNames, content : {WithBegin, WithoutBegin}]

EntryPath(e) == PathJoin(e.dirpath, e.fn)

\* what os.walk can yield: each file once, the files of a directory before the
\* files of its subdirectory, the files of one directory in any order
Walks ==
    {w \in BoundedSeq(WalkEntries, MaxWalked) :
        /\ \A a, b \in 1..Len(w) : a < b => EntryPath(w[a]) # EntryPath(w[b])
        /\ \A a, b \in 1..Len(w) : a < b => ~(w[a].dirpath = SubDir /\ w[b].dirpath = Dir)}

InitRoot ==
    /\ walked \in Walks
    /\ disk = [p \in {EntryPath(walked[k]) : k \in 1..Len(walked)} |->
                  LET k == CHOOSE k \in 1..Len(walked) : EntryPath(walked[k]) = p
                  IN  walked[k].content]
    /\ graph = <<>>
    /\ pc = "find"
    /\ root_tex = None
    /\ visited = {} /\ stack = <<>> /\ all_tex_files = None
    /\ cat_txt = None /\ run = 0 /\ first = None /\ edited = FALSE
    /\ tex_content = None /\ include_files = None

\* main calls find_main_texfile(tmpdir)
FindMain ==
    /\ pc = "find"
    /\ root_tex' = find_main_texfile(walked, disk)
    /\ pc' = "found"
    /\ UNCHANGED <<disk, graph, visited, stack, all_tex_files, cat_txt, run, first, edited,
                   tex_content, include_files, walked>>

NextRoot == FindMain

SpecRoot == InitRoot /\ [][NextRoot]_vars

-----------------------------------------------------------------------------
(* The texts parse_includes is exercised on *)

FragInputA  == KwInput \o <<"{", "a", "}">>
FragInclude == KwInclude
Frags == {FragInputA, FragInclude, <<" ">>, <<"b">>, <<"%">>, <<"\n">>, <<"{", "b", "}">>}

ParseTexts == {Flatten(fs) : fs \in BoundedSeq(Frags, MaxFrags)}

InitParse ==
    /\ tex_content \in ParseTexts
    /\ include_files = None
    /\ pc = "parse"
    /\ disk = <<>> /\ graph = <<>> /\ visited = {} /\ stack = <<>> /\ all_tex_files = None
    /\ cat_txt = None /\ run = 0 /\ first = None /\ edited = FALSE
    /\ walked = <<>> /\ root_tex = None

Parse ==
    /\ pc = "parse"
    /\ include_files' = parse_includes(tex_content)
    /\ pc' = "parsed"
    /\ UNCHANGED <<disk, graph, visited, stack, all_tex_files, cat_txt, run, first, edited,
                   tex_content, walked, root_tex>>

NextParse == Parse

SpecParse == InitParse /\ [][NextParse]_vars

-----------------------------------------------------------------------------
(* What the parser is specified to return, stated over lines, brace-closed *)
(* segments and whitespace-separated tokens rather than by scanning        *)

Min(S) == CHOOSE j \in S : \A h \in S : j <= h

RECURSIVE Ascending(_)
\* a finite set of numbers as an increasing sequence
Ascending(S) == IF S = {} THEN <<>> ELSE <<Min(S)>> \o Ascending(S \ {Min(S)})

\* the lines of t: the stretches between line breaks, a final empty one dropped
TextLines(t) ==
    LET breaks == {j \in 1..Len(t) :
                      /\ t[j] \in LineBreaks
                      /\ ~(t[j] = "\n" /\ j > 1 /\ t[j - 1] = "\r")}
        breakEnd(j) == IF t[j] = "\r" /\ j < Len(t) /\ t[j + 1] = "\n" THEN j + 1 ELSE j
        starts == {a \in {1} \cup {breakEnd(j) + 1 : j \in breaks} : a <= Len(t)}
        lineAt(a) == LET later == {j \in breaks : j >= a}
                     IN  Slice(t, a, IF later = {} THEN Len(t) ELSE Min(later) - 1)
        order == Ascending(starts)
    IN  [k \in 1..Len(order) |-> lineAt(order[k])]

\* the part of a line before its first '%'
BeforeComment(line) ==
    LET marks == {j \in 1..Len(line) : line[j] = "%"}
    IN  IF marks = {} THEN line ELSE Slice(line, 1, Min(marks) - 1)

\* bracketed references: in each stretch closed by a '}', what follows the
\* leftmost directive keyword that is directly followed by '{'
BracketRefs(p) ==
    LET closers == Ascending({j \in 1..Len(p) : p[j] = "}"})
        from(k) == IF k = 1 THEN 1 ELSE closers[k - 1] + 1
        opens(k) == {j \in from(k)..closers[k] :
                        \E kw \in {KwInput, KwInclude} :
                            HasPrefixAt(p, j, kw \o <<"{">>) /\ j + Len(kw) < closers[k]}
        ref(k) == LET j == Min(opens(k))
                      kw == IF HasPrefixAt(p, j, KwInput) THEN KwInput ELSE KwInclude
                  IN  Slice(p, j + Len(kw) + 1, closers[k] - 1)
        hits == {k \in 1..Len(closers) : opens(k) # {}}
        order == Ascending(hits)
    IN  [n \in 1..Len(order) |-> ref(order[n])]

RECURSIVE PairTokens(_)
\* space-delimited references: the token after a token that ends with a directive
\* keyword; a token taken as a reference starts no directive of its own
PairTokens(ts) ==
    IF Len(ts) < 2 THEN <<>>
    ELSE IF EndsWith(ts[1], KwInput) \/ EndsWith(ts[1], KwInclude)
         THEN <<ts[2]>> \o PairTokens(Tail(Tail(ts)))
         ELSE PairTokens(Tail(ts))

SpaceRefs(p) ==
    LET starts == Ascending({j \in 1..Len(p) :
                      p[j] \notin Whitespace /\ (j = 1 \/ p[j - 1] \in Whitespace)})
        tokenAt(a) == LET ws == {j \in a..Len(p) : p[j] \in Whitespace}
                      IN  Slice(p, a, IF ws = {} THEN Len(p) ELSE Min(ws) - 1)
    IN  PairTokens([k \in 1..Len(starts) |-> tokenAt(starts[k])])

ExpectedIncludes(t) ==
    LET lines == TextLines(t)
    IN  Flatten([k \in 1..Len(lines) |->
                    BracketRefs(BeforeComment(lines[k])) \o SpaceRefs(BeforeComment(lines[k]))])

\* C7: parse_includes returns, for the lines of the text in order, the references
\* in the part of each line before its first '%': all bracketed matches of the
\* line, then all its space-delimited matches; nothing after the '%' is
\* returned and a reference written twice is returned twice.
ParseReturnsLineRefs ==
    pc = "parsed" => include_files = ExpectedIncludes(tex_content)

\* a parsed text whose first directive is returned and whose second, after '%', is not
ParseCommentWitness ==
    /\ pc = "parsed"
    /\ tex_content = FragInputA \o <<"%">> \o FragInputA
    /\ include_files = << <<"a">> >>

-----------------------------------------------------------------------------
(* The include graph of the directory tree *)

TargetSeq(f) == graph[f]

TargetSet(f) == {graph[f][k] : k \in 1..Len(graph[f])}

\* the references of the tree as pairs <<file, file it includes>>
Edges == UNION {{<<f, g>> : g \in TargetSet(f)} : f \in DOMAIN disk}

RECURSIVE ReachVia(_, _, _)
\* the files reachable from the files of S along edges, never entering avoid
ReachVia(edges, S, avoid) ==
    LET more == (S \cup {e[2] : e \in {d \in edges : d[1] \in S}}) \ avoid
    IN  IF more = S THEN S ELSE ReachVia(edges, more, avoid)

ReachFrom(S, avoid) == ReachVia(Edges, S, avoid)

Reachable == ReachFrom({AbsPath(root_tex)}, {})

Listed == {all_tex_files[k] : k \in 1..Len(all_tex_files)}

Position(f) == CHOOSE k \in 1..Len(all_tex_files) : all_tex_files[k] = f

Max(S) == CHOOSE j \in S : \A h \in S : h <= j

\* C1: the list a top-level resolve_includes returns holds every file reachable
\* from the root through resolvable references exactly once: none is missing,
\* none is listed twice and no unreachable file is listed.
ReachableListedOnce ==
    pc = "returned" =>
        /\ Listed = Reachable
        /\ \A a, b \in 1..Len(all_tex_files) :
               a # b => all_tex_files[a] # all_tex_files[b]

\* returned from a tree in which main.tex -> a.tex -> b.tex -> main.tex
CycleReturnedWitness ==
    /\ pc = "returned"
    /\ Len(all_tex_files) = 3
    /\ PathB \in DOMAIN disk /\ RootPath \in TargetSet(PathB)
    /\ PathA \in DOMAIN disk /\ PathB \in TargetSet(PathA)

RECURSIVE SumOver(_, _)
\* the sum of weight[x] over the elements x of S
SumOver(S, weight) ==
    IF S = {} THEN 0
    ELSE LET x == CHOOSE x \in S : TRUE IN weight[x] + SumOver(S \ {x}, weight)

\* the work a top-level call has left when v is its visited set and calls are its
\* nested calls: the files not yet visited, each with its references, and the
\* references the nested calls have not finished
WorkLeft(v, calls) ==
    LET unvisited == DOMAIN disk \ v
        fileWork == [f \in unvisited |-> 3 * Len(parse_includes(disk[f])) + 2]
        callWork == [k \in 1..Len(calls) |->
            LET left == Len(calls[k].includes) - calls[k].i + 1
            IN  IF calls[k].at = "entry" THEN 1
                ELSE IF k = Len(calls) THEN 3 * left + 1
                ELSE 3 * (left - 1) + 2]
    IN  SumOver(unvisited, fileWork) + SumOver(1..Len(calls), callWork)

\* C2: a top-level resolve_includes on a finite tree always returns, whatever the
\* reference graph: no call fails, a running call always has a step to take,
\* and every step either returns from the top-level call or leaves it less work.
AlwaysReturns ==
    /\ [](pc # "error")
    /\ [](pc = "running" => (AtEntry \/ AtReference \/ AtLoopEnd))
    /\ [][pc = "running" =>
            /\ disk' = disk
            /\ \/ pc' = "returned"
               \/ pc' = "running" /\ WorkLeft(visited', stack') < WorkLeft(visited, stack)]_vars

\* returned from a root that includes itself
SelfIncludeReturnedWitness ==
    /\ pc = "returned"
    /\ RootPath \in TargetSet(RootPath)
    /\ all_tex_files = <<RootPath>>

\* C3: the returned list is the depth-first pre-order of first visitation: the
\* root comes first, every later file is the first not yet listed reference of
\* the latest listed file that still has one, and a file precedes every file
\* reachable only through it.
PreOrderOfFirstVisit ==
    pc = "returned" =>
        /\ all_tex_files # <<>> /\ all_tex_files[1] = AbsPath(root_tex)
        /\ \A n \in 2..Len(all_tex_files) :
              LET seen == {all_tex_files[k] : k \in 1..(n - 1)}
                  open == {k \in 1..(n - 1) : TargetSet(all_tex_files[k]) \ seen # {}}
                  refs == TargetSeq(all_tex_files[Max(open)])
                  new == {r \in 1..Len(refs) : refs[r] \notin seen}
              IN  open # {} /\ all_tex_files[n] = refs[Min(new)]
        /\ \A f, g \in Listed :
              (f # g /\ g \notin ReachFrom({AbsPath(root_tex)} \ {f}, {f}))
                  => Position(f) < Position(g)

\* main.tex -> a, a.tex -> b, b.tex -> a resolved to [main.tex, a.tex, b.tex]
SpecExampleWitness ==
    /\ pc = "returned"
    /\ all_tex_files = <<RootPath, PathA, PathB>>
    /\ TargetSeq(RootPath) = <<PathA>>
    /\ TargetSeq(PathA) = <<PathB>>
    /\ TargetSeq(PathB) = <<PathA>>

\* the names and the contents of the enumerated *.tex entries
TexEntries == {k \in 1..Len(walked) : EndsWith(Lower(walked[k].fn), DotTex)}
MainNamed  == {k \in TexEntries : Lower(walked[k].fn) = MainTex}
WithMarker == {k \in TexEntries : Contains(walked[k].content, BeginDocument)}

\* C4: find_main_texfile returns the first enumerated *.tex file named main.tex
\* (case-insensitively) whatever else is enumerated; failing that the first one
\* whose content contains \begin{document}; failing that the first one; and
\* None exactly when no *.tex file is enumerated.
RootByPriority ==
    pc = "found" =>
        /\ MainNamed # {} => root_tex = EntryPath(walked[Min(MainNamed)])
        /\ (MainNamed = {} /\ WithMarker # {})
               => root_tex = EntryPath(walked[Min(WithMarker)])
        /\ (MainNamed = {} /\ WithMarker = {} /\ TexEntries # {})
               => root_tex = EntryPath(walked[Min(TexEntries)])
        /\ (root_tex = None) <=> (TexEntries = {})

\* a file named Main.TEX enumerated after a *.tex file with the marker is chosen
NameBeatsContentWitness ==
    /\ pc = "found"
    /\ Len(walked) >= 2
    /\ 1 \in WithMarker /\ 1 \notin MainNamed
    /\ 2 \in MainNamed /\ walked[2].fn # MainTex
    /\ root_tex = EntryPath(walked[2])

\* what the extension rule resolves a reference to
RuleResolves(base_dir, inc) ==
    LET verbatim == PathJoin(base_dir, inc)
        extended == PathJoin(base_dir, inc \o DotTex)
    IN  IF EndsWith(Lower(inc), DotTex)
        THEN IF IsFile(disk, verbatim) THEN verbatim ELSE None
        ELSE IF IsFile(disk, extended) THEN extended
        ELSE IF IsFile(disk, verbatim) THEN verbatim
        ELSE None

\* C5: a reference ending with .tex (case-insensitively) is looked up verbatim
\* only; any other reference is looked up with .tex appended first and verbatim
\* second; the first that is a regular file is the file the walker enters.
ExtensionRule ==
    [][AtReference =>
          LET to == RuleResolves(DirName(Top.abspath), Top.includes[Top.i])
          IN  IF to = None
              THEN Len(stack') = Len(stack) /\ stack'[Len(stack')].i = Top.i + 1
              ELSE Len(stack') = Len(stack) + 1 /\ stack'[Len(stack')].arg = to]_vars

\* \input{a} entered a.tex in a directory that holds both a.tex and a
BothCandidatesWitness ==
    /\ pc = "running" /\ Len(stack) = 2
    /\ stack[1].includes[stack[1].i] = <<"a">>
    /\ {PathA, PathBare} \subseteq DOMAIN disk
    /\ stack[2].arg = PathA

\* the innermost call is about to handle a reference no candidate of which is a file
AtDanglingReference ==
    /\ AtReference
    /\ FoundPath(disk, DirName(Top.abspath), Top.includes[Top.i]) = None

\* C6: a reference none of whose candidates is a regular file raises nothing and
\* adds nothing to the results or to the visited set; the loop goes on with the
\* next reference, and the returned list is the one returned once the dangling
\* directive is deleted from the text.
DanglingDropped ==
    /\ [][AtDanglingReference =>
            /\ pc' = "running"
            /\ visited' = visited
            /\ stack' = [stack EXCEPT ![Len(stack)].i = @ + 1]]_vars
    /\ []((pc = "returned" /\ edited) => all_tex_files = first.files)

\* a second call returned after a dangling directive was deleted from a tree whose
\* root includes a file
DanglingRemovedWitness ==
    /\ pc = "returned" /\ edited /\ run = 2
    /\ Len(all_tex_files) >= 2

\* the text split at every newline
NewlineSplit(text) == SplitOn(text, "\n")

\* the lines of the block of one file
BlockLines(texf) ==
    <<BeginMark \o texf>> \o NewlineSplit(disk[texf]) \o <<EndMark \o texf, <<>> >>

\* C8: cat.txt holds one block per element of the list, in list order: the
\* begin-marker line of the path, the content of the file, the end-marker line
\* of the same path, and a blank line after it.
OneBlockPerFile ==
    pc = "emitted" =>
        NewlineSplit(cat_txt) =
            Flatten([k \in 1..Len(all_tex_files) |-> BlockLines(all_tex_files[k])])
                \o << <<>> >>

\* three files were written
ThreeBlocksWitness ==
    /\ pc = "emitted"
    /\ Len(all_tex_files) = 3

\* C9: a second top-level call on the unchanged tree starts with an empty visited
\* set and returns the list of the first call; the text emitted is the same too.
SecondCallSame ==
    /\ (pc = "running" /\ Len(stack) = 1 /\ stack[1].at = "entry") => visited = {}
    /\ (pc \in {"returned", "emitted"} /\ run >= 2 /\ ~edited)
           => all_tex_files = first.files
    /\ (pc = "emitted" /\ run >= 2 /\ ~edited) => cat_txt = first.cat

\* the second call on an unchanged tree of several files has emitted
SecondCallWitness ==
    /\ pc = "emitted" /\ run = 2 /\ ~edited
    /\ Len(all_tex_files) >= 2

\* C10 as stated: the number of nested resolve_includes calls never exceeds the
\* number of files of the tree.
DepthWithinFiles == Len(stack) <= Cardinality(DOMAIN disk)

\* C10 amended: the calls that got past the visited test are on distinct files,
\* and at most one more call, which returns at once, is nested in them: the
\* depth never exceeds the number of reachable files plus one.
DepthWithinFilesPlusOne ==
    /\ Len(stack) <= Cardinality(Reachable) + 1
    /\ \A a, b \in 1..Len(stack) :
          (a # b /\ stack[a].at = "loop" /\ stack[b].at = "loop")
              => stack[a].abspath # stack[b].abspath
    /\ \A a \in 1..Len(stack) : stack[a].at = "entry" => a = Len(stack)

\* in a cycle over three files a fourth call is nested
FourthCallWitness ==
    /\ pc = "running"
    /\ Cardinality(Reachable) = 3
    /\ Len(stack) = 4
    /\ AbsPath(stack[4].arg) = RootPath

=============================================================================
